---- MODULE Spec2Model ----
(***************************************************************************)
(* State-machine model of the ImGuiScaling library: the Scalable mixin     *)
(* (include/ImGuiScaling/ImGuiScaling.hpp) and the global user scale with  *)
(* its settings persistence (src/ImGuiScaling.cpp).                        *)
(*                                                                         *)
(* Scale values are C floats in the source.  The code only compares them   *)
(* (> 0, <= 10, !=), stores them, prints them with "%.3f" and parses them  *)
(* back with "%f", so a value is modelled as an integer number of          *)
(* ten-thousandths ("ticks"): 1.0f is 10000 ticks.  One more decimal       *)
(* digit than "%.3f" prints, so that printing really rounds.               *)
(***************************************************************************)
EXTENDS Integers, Sequences, FiniteSets

\* 1.0f, the default of m_scale, m_prevScale and g_userScale, in ticks.
One == 10000

\* Number of Scalable instances (widgets) alive in the model.
NumInstances == 2

\* The ghost count of effective SetScale calls since the last
\* acknowledgement saturates at this value.
EffCap == 2

Instances == 1 .. NumInstances

\* Arguments the application passes to Scalable::SetScale: a negative
\* value, zero, and three positive values.
ScaleArgs == {0 - One, 0, One, 15000, 2 * One}

\* Toolkit contexts one process creates (ImGui::CreateContext); a context
\* id is never reused, and 0 stands for the null context pointer.
MaxCtx == 2

CtxIds == 1 .. MaxCtx

NoCtx == 0

\* Arguments the application passes to SetUserScale: negative, zero,
\* 0.0004 (prints as 0.000), 1.2506 (prints as 1.251), 10.0 (the largest
\* value the read-line sanity check accepts) and 11.0 (above it).
UserScaleArgs == {0 - One, 0, 4, 12506, 10 * One, 11 * One}

\* The same, fewer, where several contexts are alive at once.
FewUserScaleArgs == {0 - One, 0, 15000, 11 * One}

VARIABLES
    m_scale,        \* Scalable::m_scale, per instance
    m_prevScale,    \* Scalable::m_prevScale, per instance
    ackScale,       \* history: m_scale at the last AcknowledgeScaleChange
    effSinceAck,    \* history: effective SetScale calls since then (saturating)
    g_userScale,    \* static float g_userScale
    g_settingsHandlerRegistered,    \* static bool g_settingsHandlerRegistered
    GImGui,         \* the toolkit's current context (ImGui::GetCurrentContext)
    ctxAlive,       \* the contexts created and not destroyed
    ctxCreated,     \* how many contexts this process has created
    SettingsHandlers,   \* ctx->SettingsHandlers: the TypeName of each handler
    SettingsDirty,  \* per context: settings marked dirty and not yet saved
    iniData,        \* the settings text of the last save pass (the .ini file)
    writtenScale,   \* history: g_userScale when iniData was written
    fresh,          \* history: nothing has assigned g_userScale in this process
    regCtxs,        \* history: the contexts that were current at the
                    \* RegisterSettingsHandler calls of this process
    loadPending,    \* a load pass: the lines the host has still to hand over
    loadFed,        \* history: the lines of the pass handed over so far
    loadBefore,     \* history: g_userScale when the pass began
    config,         \* a ScaleConfig value
    configIn,       \* history: the construction that made config
    calls,          \* history: calls made on the widgets
    hookCalls,      \* history: OnScaleChanged invocations
    effCalls,       \* history: SetScale calls whose argument was positive
                    \* and different from the then-current scale
    accepted,       \* history: per instance, the last such argument
    last            \* history: the call the last step made, and what it did

wvars == <<m_scale, m_prevScale, ackScale, effSinceAck>>
gvars == <<g_userScale, g_settingsHandlerRegistered, fresh, regCtxs>>
cvars == <<GImGui, ctxAlive, ctxCreated, SettingsHandlers, SettingsDirty>>
fvars == <<iniData, writtenScale>>
lvars == <<loadPending, loadFed, loadBefore>>
kvars == <<config, configIn>>
hvars == <<calls, hookCalls, effCalls, accepted>>
xvars == <<lvars, kvars, hvars>>
vars == <<m_scale, m_prevScale, ackScale, effSinceAck, g_userScale,
          g_settingsHandlerRegistered, GImGui, ctxAlive, ctxCreated,
          SettingsHandlers, SettingsDirty, iniData, writtenScale, fresh,
          regCtxs, loadPending, loadFed, loadBefore, config, configIn,
          calls, hookCalls, effCalls, accepted, last>>

\* The record of one call into the library (op is "env" for a step of the
\* host toolkit or of the process instead): its arguments (inst, scale, entry, line), what
\* each OnScaleChanged invocation of the call observed (hooks), and whether
\* the call invoked ImGui::MarkIniSettingsDirty (marked) or pushed a handler
\* on a context's list (installed); for the scaling helpers, the touch
\* value, the touch mode and the value returned (touch, mode, result).
NoCall ==
    [op |-> "none", inst |-> 0, scale |-> 0, hooks |-> <<>>,
     entry |-> 0, line |-> <<>>, marked |-> FALSE, installed |-> FALSE,
     touch |-> 0, mode |-> FALSE, result |-> 0]

Call(op) == [NoCall EXCEPT !.op = op]

----------------------------------------------------------------------------
(* Text: a line is a sequence of one-character strings, without its "\n". *)

Digits == <<"0", "1", "2", "3", "4", "5", "6", "7", "8", "9">>

DigitChar(n) == Digits[n + 1]

IsDigit(c) == \E k \in 1 .. 10 : Digits[k] = c

DigitVal(c) == (CHOOSE k \in 1 .. 10 : Digits[k] = c) - 1

IsSpace(c) == c \in {" ", "\t"}

\* The decimal digits of a natural number, most significant first.
RECURSIVE DecimalDigits(_)
DecimalDigits(n) ==
    IF n < 10 THEN <<DigitChar(n)>>
    ELSE DecimalDigits(n \div 10) \o <<DigitChar(n % 10)>>

\* A non-negative tick value in thousandths, rounded to nearest, an exact
\* tie to even (printf rounds the exact binary value of the float).
Thousandths(a) ==
    LET q == a \div 10
        r == a % 10
    IN IF r > 5 \/ (r = 5 /\ q % 2 = 1) THEN q + 1 ELSE q

\* printf("%.3f", v)
FormatFixed3(v) ==
    LET a == IF v < 0 THEN 0 - v ELSE v
        m == Thousandths(a)
    IN (IF v < 0 THEN <<"-">> ELSE <<>>)
       \o DecimalDigits(m \div 1000)
       \o <<".", DigitChar((m \div 100) % 10), DigitChar((m \div 10) % 10),
            DigitChar(m % 10)>>

RECURSIVE SkipSpaces(_)
SkipSpaces(s) ==
    IF s # <<>> /\ IsSpace(Head(s)) THEN SkipSpaces(Tail(s)) ELSE s

\* The longest prefix of s made of decimal digits.
RECURSIVE TakeDigits(_)
TakeDigits(s) ==
    IF s # <<>> /\ IsDigit(Head(s))
    THEN <<Head(s)>> \o TakeDigits(Tail(s))
    ELSE <<>>

RECURSIVE DigitsValue(_)
DigitsValue(ds) ==
    IF ds = <<>> THEN 0
    ELSE 10 * DigitsValue(SubSeq(ds, 1, Len(ds) - 1)) + DigitVal(ds[Len(ds)])

\* The first four fraction digits as ticks; further digits are below the
\* resolution of the model.
FractionTicks(ds) ==
    LET d(k) == IF k <= Len(ds) THEN DigitVal(ds[k]) ELSE 0
    IN 1000 * d(1) + 100 * d(2) + 10 * d(3) + d(4)

\* The "%f" conversion of sscanf on input s: leading white space is
\* skipped, then an optional sign, digits, an optional point and digits,
\* with at least one digit.  n is 1 for a conversion, 0 for a matching
\* failure and -1 for an input failure (the input ended first).
ScanFloat(s) ==
    LET t == SkipSpaces(s)
        signed == t # <<>> /\ Head(t) \in {"+", "-"}
        u == IF signed THEN Tail(t) ELSE t
        ip == TakeDigits(u)
        w == SubSeq(u, Len(ip) + 1, Len(u))
        hasPoint == w # <<>> /\ Head(w) = "."
        fp == IF hasPoint THEN TakeDigits(Tail(w)) ELSE <<>>
        mag == One * DigitsValue(ip) + FractionTicks(fp)
    IN IF t = <<>> THEN [n |-> 0 - 1, scale |-> 0]
       ELSE IF ip = <<>> /\ fp = <<>> THEN [n |-> 0, scale |-> 0]
       ELSE [n |-> 1, scale |-> IF signed /\ Head(t) = "-" THEN 0 - mag ELSE mag]

UserScaleKey == <<"U", "s", "e", "r", "S", "c", "a", "l", "e", "=">>

\* Literal characters of a format match the input one by one: the input
\* ending is an input failure, another character a matching failure.
RECURSIVE MatchLiteral(_, _)
MatchLiteral(lit, s) ==
    IF lit = <<>> THEN [n |-> 1, rest |-> s]
    ELSE IF s = <<>> THEN [n |-> 0 - 1, rest |-> s]
    ELSE IF Head(s) # Head(lit) THEN [n |-> 0, rest |-> s]
    ELSE MatchLiteral(Tail(lit), Tail(s))

\* sscanf(line, "UserScale=%f", &scale): its return value and the scale.
ScanUserScale(line) ==
    LET m == MatchLiteral(UserScaleKey, line)
    IN IF m.n # 1 THEN [n |-> m.n, scale |-> 0] ELSE ScanFloat(m.rest)

TypeName == <<"I", "m", "G", "u", "i", "S", "c", "a", "l", "i", "n", "g">>

DataName == <<"D", "a", "t", "a">>

OtherName == <<"O", "t", "h", "e", "r">>

\* "Data" with one more character, and with a lower-case first letter.
NearNames == {DataName \o <<"2">>, <<"d", "a", "t", "a">>}

EntryNames == {DataName, OtherName} \cup NearNames

\* Lines a settings file may hold besides the ones this library wrote.
SampleLines ==
    { UserScaleKey \o <<"0", ".", "0", "0", "0">>,
      UserScaleKey \o <<"1", "1", ".", "0", "0", "0">>,
      UserScaleKey \o <<"1", ".", "5", "0", "0">>,
      UserScaleKey \o <<"a", "b", "c">>,
      UserScaleKey \o <<"-", "1", ".", "0", "0", "0">>,
      UserScaleKey \o <<" ", "2", ".", "5", "x">>,
      <<"P", "o", "s", "=", "6", "0", ",", "6", "0">> }

Range(f) == {f[k] : k \in DOMAIN f}

\* The first and the last Scalable of the program.
MixedInstances == {1, NumInstances}

\* Arguments of SetScale next to calls on the global state: negative,
\* zero, the initial 1.0 and 1.5.
MixedScaleArgs == {0 - One, 0, One, 15000}

\* Lines handed to the read-line callback next to calls on widgets:
\* negative, zero, out of range, and the accepted 2.5.
MixedLines ==
    { UserScaleKey \o <<"-", "1", ".", "0", "0", "0">>,
      UserScaleKey \o <<"0", ".", "0", "0", "0">>,
      UserScaleKey \o <<"1", "1", ".", "0", "0", "0">>,
      UserScaleKey \o <<" ", "2", ".", "5", "x">> }

\* Lines of a load pass: two that are accepted (1.5, and 2.5 after white
\* space and before another character), one out of range, one zero and one
\* that is no number.
LoadLines ==
    { UserScaleKey \o <<"1", ".", "5", "0", "0">>,
      UserScaleKey \o <<" ", "2", ".", "5", "x">>,
      UserScaleKey \o <<"1", "1", ".", "0", "0", "0">>,
      UserScaleKey \o <<"0", ".", "0", "0", "0">>,
      UserScaleKey \o <<"a", "b", "c">> }

\* The lines of one entry that the host hands over in one load pass.
MaxLines == 3

\* The sequences of 1 .. n lines of LoadLines.
RECURSIVE LineSeqs(_)
LineSeqs(n) ==
    IF n = 0 THEN {}
    ELSE LET shorter == LineSeqs(n - 1)
         IN {<<l>> : l \in LoadLines} \cup shorter
            \cup {Append(q, l) : q \in shorter, l \in LoadLines}

----------------------------------------------------------------------------
(* Scalable *)

\* The product of two scale values (float operator*); the arguments used
\* here are multiples of 0.25, whose products need no rounding. The whole
\* part and the fraction of a are multiplied one after the other.
Mul(a, b) == (a \div One) * b + ((a % One) * b) \div One

GetScale(i) == m_scale[i]

HasScaleChanged(i) == m_scale[i] # m_prevScale[i]

\* The default hook is empty; an override can read the instance.  The
\* model records what the hook would read at the moment it runs.
OnScaleChanged(scaleNow, prevNow) ==
    [scale |-> scaleNow, changed |-> (scaleNow # prevNow)]

\* SetScale without "m_prevScale = m_scale".
SetScale_KeepsPrev(i, scale) ==
    /\ IF scale > 0 /\ scale # m_scale[i]
       THEN /\ m_scale' = [m_scale EXCEPT ![i] = scale]
            /\ last' = [Call("SetScale") EXCEPT
                           !.inst = i, !.scale = scale,
                           !.hooks = <<OnScaleChanged(scale, m_prevScale[i])>>]
            /\ effSinceAck' = [effSinceAck EXCEPT ![i] =
                                  IF @ < EffCap THEN @ + 1 ELSE @]
            /\ UNCHANGED <<m_prevScale, ackScale>>
       ELSE /\ last' = [Call("SetScale") EXCEPT !.inst = i, !.scale = scale]
            /\ UNCHANGED wvars
    /\ UNCHANGED <<gvars, cvars, fvars>>

\* SetScale without the "scale != m_scale" test.
SetScale_NoEqualityCheck(i, scale) ==
    /\ IF scale > 0
       THEN /\ m_prevScale' = [m_prevScale EXCEPT ![i] = m_scale[i]]
            /\ m_scale' = [m_scale EXCEPT ![i] = scale]
            /\ last' = [Call("SetScale") EXCEPT
                           !.inst = i, !.scale = scale,
                           !.hooks = <<OnScaleChanged(scale, m_scale[i])>>]
            /\ effSinceAck' = [effSinceAck EXCEPT ![i] =
                                  IF @ < EffCap THEN @ + 1 ELSE @]
            /\ UNCHANGED ackScale
       ELSE /\ last' = [Call("SetScale") EXCEPT !.inst = i, !.scale = scale]
            /\ UNCHANGED wvars
    /\ UNCHANGED <<gvars, cvars, fvars>>

\* SetScale that also marks the settings of the current context dirty
\* when it changes the scale.
SetScale_MarksDirty(i, scale) ==
    /\ IF scale > 0 /\ scale # m_scale[i]
       THEN /\ m_prevScale' = [m_prevScale EXCEPT ![i] = m_scale[i]]
            /\ m_scale' = [m_scale EXCEPT ![i] = scale]
            /\ last' = [Call("SetScale") EXCEPT !.inst = i, !.scale = scale,
                           !.hooks = <<OnScaleChanged(scale, m_scale[i])>>]
            /\ effSinceAck' = [effSinceAck EXCEPT ![i] = IF @ < EffCap THEN @ + 1 ELSE @]
            /\ SettingsDirty' = IF GImGui # NoCtx
                                THEN [SettingsDirty EXCEPT ![GImGui] = TRUE]
                                ELSE SettingsDirty
            /\ UNCHANGED ackScale
       ELSE /\ last' = [Call("SetScale") EXCEPT !.inst = i, !.scale = scale]
            /\ UNCHANGED <<wvars, SettingsDirty>>
    /\ UNCHANGED <<gvars, GImGui, ctxAlive, ctxCreated, SettingsHandlers, fvars>>

\* SetScale that calls the hook before it stores the new scale.
SetScale_HookFirst(i, scale) ==
    /\ IF scale > 0 /\ scale # m_scale[i]
       THEN /\ m_prevScale' = [m_prevScale EXCEPT ![i] = m_scale[i]]
            /\ m_scale' = [m_scale EXCEPT ![i] = scale]
            /\ last' = [Call("SetScale") EXCEPT !.inst = i, !.scale = scale,
                           !.hooks = <<OnScaleChanged(m_scale[i], m_prevScale[i])>>]
            /\ effSinceAck' = [effSinceAck EXCEPT ![i] = IF @ < EffCap THEN @ + 1 ELSE @]
            /\ UNCHANGED ackScale
       ELSE /\ last' = [Call("SetScale") EXCEPT !.inst = i, !.scale = scale]
            /\ UNCHANGED wvars
    /\ UNCHANGED <<gvars, cvars, fvars>>

SetScale(i, scale) ==
    /\ IF scale > 0 /\ scale # m_scale[i]
       THEN LET prev1 == m_scale[i]
                scale1 == scale
            IN /\ m_prevScale' = [m_prevScale EXCEPT ![i] = prev1]
               /\ m_scale' = [m_scale EXCEPT ![i] = scale1]
               /\ last' = [Call("SetScale") EXCEPT
                              !.inst = i, !.scale = scale,
                              !.hooks = <<OnScaleChanged(scale1, prev1)>>]
               /\ effSinceAck' = [effSinceAck EXCEPT ![i] =
                                     IF @ < EffCap THEN @ + 1 ELSE @]
               /\ UNCHANGED ackScale
       ELSE /\ last' = [Call("SetScale") EXCEPT !.inst = i, !.scale = scale]
            /\ UNCHANGED wvars
    /\ UNCHANGED <<gvars, cvars, fvars>>

\* AcknowledgeScaleChange that stores nothing.
AcknowledgeScaleChange_NoStore(i) ==
    /\ ackScale' = [ackScale EXCEPT ![i] = m_scale[i]]
    /\ effSinceAck' = [effSinceAck EXCEPT ![i] = 0]
    /\ last' = [Call("AcknowledgeScaleChange") EXCEPT !.inst = i]
    /\ UNCHANGED <<m_scale, m_prevScale, gvars, cvars, fvars>>

AcknowledgeScaleChange(i) ==
    /\ m_prevScale' = [m_prevScale EXCEPT ![i] = m_scale[i]]
    /\ ackScale' = [ackScale EXCEPT ![i] = m_scale[i]]
    /\ effSinceAck' = [effSinceAck EXCEPT ![i] = 0]
    /\ last' = [Call("AcknowledgeScaleChange") EXCEPT !.inst = i]
    /\ UNCHANGED <<m_scale, gvars, cvars, fvars>>

\* Scaled that multiplies by the previous scale.
Scaled_UsesPrevScale(i, value) == Mul(value, m_prevScale[i])

Scaled(i, value) == Mul(value, m_scale[i])

ScaledTouch(i, desktopValue, touchValue, touchMode) ==
    Mul(IF touchMode THEN touchValue ELSE desktopValue, m_scale[i])

\* Base sizes handed to Scaled and ScaledTouch: 0, 10.0 and 20.0.
ValueArgs == {0, 10 * One, 20 * One}

\* A widget calls Scaled.
ScaledCall(i, value) ==
    /\ last' = [Call("Scaled") EXCEPT !.inst = i, !.scale = value,
                   !.result = Scaled(i, value)]
    /\ UNCHANGED <<wvars, gvars, cvars, fvars, xvars>>

\* A widget calls ScaledTouch.
ScaledTouchCall(i, desktopValue, touchValue, touchMode) ==
    /\ last' = [Call("ScaledTouch") EXCEPT !.inst = i, !.scale = desktopValue,
                   !.touch = touchValue, !.mode = touchMode,
                   !.result = ScaledTouch(i, desktopValue, touchValue, touchMode)]
    /\ UNCHANGED <<wvars, gvars, cvars, fvars, xvars>>

\* A SetScale call of a run that keeps the last positive argument given
\* for each Scalable.
SetScaleTracked(i, scale) ==
    /\ SetScale(i, scale)
    /\ accepted' = IF scale > 0 THEN [accepted EXCEPT ![i] = scale] ELSE accepted
    /\ UNCHANGED <<lvars, kvars, calls, hookCalls, effCalls>>

\* The SetScale calls of a counted run.
MaxCalls == 4

\* A SetScale call of a run in which the calls, the calls that change the
\* scale and the calls of the hook are counted.
SetScaleCounted(i, scale) ==
    /\ calls < MaxCalls
    /\ SetScale(i, scale)
    /\ calls' = calls + 1
    /\ effCalls' = effCalls + (IF scale > 0 /\ scale # m_scale[i] THEN 1 ELSE 0)
    /\ hookCalls' = hookCalls + Len(last'.hooks)
    /\ UNCHANGED <<lvars, kvars, accepted>>

----------------------------------------------------------------------------
(* Host toolkit: contexts and the settings engine *)

\* The handlers the toolkit installs in every new context.
BuiltinHandlers == << <<"W", "i", "n", "d", "o", "w">>, <<"T", "a", "b", "l", "e">> >>

\* ImGui::CreateContext: the new context becomes current only when none is.
CreateContext ==
    /\ ctxCreated < MaxCtx
    /\ LET c == ctxCreated + 1
       IN /\ ctxCreated' = c
          /\ ctxAlive' = ctxAlive \cup {c}
          /\ SettingsHandlers' = [SettingsHandlers EXCEPT ![c] = BuiltinHandlers]
          /\ SettingsDirty' = [SettingsDirty EXCEPT ![c] = FALSE]
          /\ GImGui' = IF GImGui = NoCtx THEN c ELSE GImGui
    /\ last' = Call("env")
    /\ UNCHANGED <<wvars, gvars, fvars>>

\* ImGui::DestroyContext
DestroyContext(c) ==
    /\ c \in ctxAlive
    /\ ctxAlive' = ctxAlive \ {c}
    /\ SettingsHandlers' = [SettingsHandlers EXCEPT ![c] = <<>>]
    /\ SettingsDirty' = [SettingsDirty EXCEPT ![c] = FALSE]
    /\ GImGui' = IF GImGui = c THEN NoCtx ELSE GImGui
    /\ last' = Call("env")
    /\ UNCHANGED <<ctxCreated, wvars, gvars, fvars>>

\* ImGui::SetCurrentContext
SetCurrentContext(c) ==
    /\ c \in ctxAlive \cup {NoCtx}
    /\ c # GImGui
    /\ GImGui' = c
    /\ last' = Call("env")
    /\ UNCHANGED <<ctxAlive, ctxCreated, SettingsHandlers, SettingsDirty,
                   wvars, gvars, fvars>>

\* ImGui::MarkIniSettingsDirty, on the current context c.
MarkIniSettingsDirty(dirty, c) == [dirty EXCEPT ![c] = TRUE]

----------------------------------------------------------------------------
(* Global user scale and its persistence *)

\* A default-constructed ScaleConfig: the member initialisers.
ScaleConfig == [dpiScale |-> One, userScale |-> One]

GetEffectiveScale(c) == Mul(c.dpiScale, c.userScale)

FromEffective(effective) ==
    [ScaleConfig EXCEPT !.dpiScale = One, !.userScale = effective]

\* ScaleConfig::Create that leaves the DPI scale at its default.
Create_DropsDpi(dpi, user) == [ScaleConfig EXCEPT !.userScale = user]

Create(dpi, user) ==
    [ScaleConfig EXCEPT !.dpiScale = dpi, !.userScale = user]

\* The positive arguments ScaleConfig is made from: multiples of 0.25.
ConfigArgs ==
    {5000, 7500, One, 12500, 15000, 17500, 2 * One, 25000, 3 * One, 4 * One}

\* The record of the call that made config.
NoConfigCall == [op |-> "default", dpi |-> 0, user |-> 0, effective |-> 0]

CreateCall(dpi, user) ==
    /\ config' = Create(dpi, user)
    /\ configIn' = [NoConfigCall EXCEPT !.op = "Create", !.dpi = dpi, !.user = user]
    /\ UNCHANGED <<wvars, gvars, cvars, fvars, lvars, hvars, last>>

FromEffectiveCall(effective) ==
    /\ config' = FromEffective(effective)
    /\ configIn' = [NoConfigCall EXCEPT !.op = "FromEffective", !.effective = effective]
    /\ UNCHANGED <<wvars, gvars, cvars, fvars, lvars, hvars, last>>

DefaultConstruct ==
    /\ config' = ScaleConfig
    /\ configIn' = NoConfigCall
    /\ UNCHANGED <<wvars, gvars, cvars, fvars, lvars, hvars, last>>

GetUserScale == g_userScale

\* SetUserScale that returns early when there is no context.
SetUserScale_NeedsContext(scale) ==
    /\ IF scale > 0 /\ GImGui # NoCtx
       THEN /\ g_userScale' = scale
            /\ fresh' = FALSE
            /\ SettingsDirty' = MarkIniSettingsDirty(SettingsDirty, GImGui)
            /\ last' = [Call("SetUserScale") EXCEPT
                           !.scale = scale, !.marked = TRUE]
       ELSE /\ last' = [Call("SetUserScale") EXCEPT !.scale = scale]
            /\ UNCHANGED <<g_userScale, fresh, SettingsDirty>>
    /\ UNCHANGED <<g_settingsHandlerRegistered, regCtxs, GImGui, ctxAlive,
                   ctxCreated, SettingsHandlers, wvars, fvars>>

\* SetUserScale without the "scale > 0.0f" test.
SetUserScale_NoCheck(scale) ==
    /\ g_userScale' = scale
    /\ fresh' = FALSE
    /\ IF GImGui # NoCtx
       THEN /\ SettingsDirty' = MarkIniSettingsDirty(SettingsDirty, GImGui)
            /\ last' = [Call("SetUserScale") EXCEPT
                           !.scale = scale, !.marked = TRUE]
       ELSE /\ last' = [Call("SetUserScale") EXCEPT !.scale = scale]
            /\ UNCHANGED SettingsDirty
    /\ UNCHANGED <<g_settingsHandlerRegistered, regCtxs, GImGui, ctxAlive,
                   ctxCreated, SettingsHandlers, wvars, fvars>>

SetUserScale(scale) ==
    /\ IF scale > 0
       THEN /\ g_userScale' = scale
            /\ fresh' = FALSE
            /\ IF GImGui # NoCtx
               THEN /\ SettingsDirty' = MarkIniSettingsDirty(SettingsDirty, GImGui)
                    /\ last' = [Call("SetUserScale") EXCEPT
                                   !.scale = scale, !.marked = TRUE]
               ELSE /\ last' = [Call("SetUserScale") EXCEPT !.scale = scale]
                    /\ UNCHANGED SettingsDirty
       ELSE /\ last' = [Call("SetUserScale") EXCEPT !.scale = scale]
            /\ UNCHANGED <<g_userScale, fresh, SettingsDirty>>
    /\ UNCHANGED <<g_settingsHandlerRegistered, regCtxs, GImGui, ctxAlive,
                   ctxCreated, SettingsHandlers, wvars, fvars>>

\* SettingsHandler_ReadOpen that accepts every entry name.
SettingsHandler_ReadOpen_AnyName(name) == 1

\* The entry token: (void*)1 for "Data", nullptr (0) for any other name.
SettingsHandler_ReadOpen(name) == IF name = DataName THEN 1 ELSE 0

\* SettingsHandler_ReadLine without the "scale <= 10.0f" half of the
\* sanity check.
SettingsHandler_ReadLine_NoUpperBound(entry, line) ==
    /\ GImGui # NoCtx
    /\ TypeName \in Range(SettingsHandlers[GImGui])
    /\ IF entry = 0
       THEN UNCHANGED <<g_userScale, fresh>>
       ELSE LET r == ScanUserScale(line)
            IN IF r.n = 1 /\ r.scale > 0
               THEN /\ g_userScale' = r.scale
                    /\ fresh' = FALSE
               ELSE UNCHANGED <<g_userScale, fresh>>
    /\ last' = [Call("ReadLine") EXCEPT !.entry = entry, !.line = line]
    /\ UNCHANGED <<g_settingsHandlerRegistered, regCtxs, wvars, cvars, fvars>>

\* SettingsHandler_ReadLine without the "scale > 0.0f" half of the sanity
\* check.
SettingsHandler_ReadLine_NoLowerBound(entry, line) ==
    /\ GImGui # NoCtx
    /\ TypeName \in Range(SettingsHandlers[GImGui])
    /\ IF entry = 0
       THEN UNCHANGED <<g_userScale, fresh>>
       ELSE LET r == ScanUserScale(line)
            IN IF r.n = 1 /\ r.scale <= 10 * One
               THEN /\ g_userScale' = r.scale
                    /\ fresh' = FALSE
               ELSE UNCHANGED <<g_userScale, fresh>>
    /\ last' = [Call("ReadLine") EXCEPT !.entry = entry, !.line = line]
    /\ UNCHANGED <<g_settingsHandlerRegistered, regCtxs, wvars, cvars, fvars>>

\* SettingsHandler_ReadLine that falls back to the default 1.0f on a line
\* it does not accept.
SettingsHandler_ReadLine_ResetsOnBadLine(entry, line) ==
    /\ GImGui # NoCtx
    /\ TypeName \in Range(SettingsHandlers[GImGui])
    /\ IF entry = 0
       THEN UNCHANGED <<g_userScale, fresh>>
       ELSE LET r == ScanUserScale(line)
            IN IF r.n = 1 /\ r.scale > 0 /\ r.scale <= 10 * One
               THEN /\ g_userScale' = r.scale
                    /\ fresh' = FALSE
               ELSE /\ g_userScale' = One
                    /\ fresh' = FALSE
    /\ last' = [Call("ReadLine") EXCEPT !.entry = entry, !.line = line]
    /\ UNCHANGED <<g_settingsHandlerRegistered, regCtxs, wvars, cvars, fvars>>

\* The host's load pass hands the lines of an entry to the handler of the
\* current context.
SettingsHandler_ReadLine(entry, line) ==
    /\ GImGui # NoCtx
    /\ TypeName \in Range(SettingsHandlers[GImGui])
    /\ IF entry = 0
       THEN UNCHANGED <<g_userScale, fresh>>
       ELSE LET r == ScanUserScale(line)
            IN IF r.n = 1
               THEN IF r.scale > 0 /\ r.scale <= 10 * One
                    THEN /\ g_userScale' = r.scale
                         /\ fresh' = FALSE
                    ELSE UNCHANGED <<g_userScale, fresh>>
               ELSE UNCHANGED <<g_userScale, fresh>>
    /\ last' = [Call("ReadLine") EXCEPT !.entry = entry, !.line = line]
    /\ UNCHANGED <<g_settingsHandlerRegistered, regCtxs, wvars, cvars, fvars>>

\* appendf("[%s][Data]", typeName)
HeaderLine(typeName) == <<"[">> \o typeName \o <<"]", "[">> \o DataName \o <<"]">>

\* SettingsHandler_WriteAll without the closing buf->append("\n").
SettingsHandler_WriteAll_NoBlankLine(typeName, userScale, buf) ==
    buf \o <<HeaderLine(typeName), UserScaleKey \o FormatFixed3(userScale)>>

\* What the write-all callback appends to the buffer for handler->TypeName.
SettingsHandler_WriteAll(typeName, userScale, buf) ==
    buf \o <<HeaderLine(typeName), UserScaleKey \o FormatFixed3(userScale), <<>> >>

\* The lines the output buffer of a save pass may hold.
MaxBuf == 6

\* The arguments of SetUserScale before a save pass: 1.25 and 1.2506 are
\* stored, 0 is rejected, 11.0 is stored.
WriteScaleArgs == {0, 12500, 12506, 11 * One}

\* What the host's window handler writes for one window.
WindowBlock ==
    << <<"[", "W", "i", "n", "d", "o", "w", "]", "[", "D", "e", "b", "u", "g", "]">>,
       <<>> >>

\* The host begins a save pass: it empties the output buffer.
BeginSave ==
    /\ GImGui # NoCtx
    /\ iniData' = <<>>
    /\ last' = Call("env")
    /\ UNCHANGED <<writtenScale, wvars, gvars, cvars, xvars>>

\* The host calls the write-all callback of another handler.
BuiltinWriteAll ==
    /\ GImGui # NoCtx
    /\ Len(iniData) + Len(WindowBlock) <= MaxBuf
    /\ iniData' = iniData \o WindowBlock
    /\ last' = Call("env")
    /\ UNCHANGED <<writtenScale, wvars, gvars, cvars, xvars>>

\* The host calls the write-all callback of the registered handler with
\* the output buffer as it stands.
WriteAllCall ==
    /\ GImGui # NoCtx
    /\ TypeName \in Range(SettingsHandlers[GImGui])
    /\ Len(iniData) + 3 <= MaxBuf
    /\ iniData' = SettingsHandler_WriteAll(TypeName, g_userScale, iniData)
    /\ last' = Call("WriteAll")
    /\ UNCHANGED <<writtenScale, wvars, gvars, cvars, xvars>>

\* One save pass of the host over the handlers hs of the current context.
RECURSIVE WritePass(_, _, _)
WritePass(hs, userScale, buf) ==
    IF hs = <<>> THEN buf
    ELSE WritePass(Tail(hs), userScale,
                   IF Head(hs) = TypeName
                   THEN SettingsHandler_WriteAll(Head(hs), userScale, buf)
                   ELSE buf)

SaveIniSettings ==
    /\ GImGui # NoCtx
    /\ iniData' = WritePass(SettingsHandlers[GImGui], g_userScale, <<>>)
    /\ writtenScale' = g_userScale
    /\ SettingsDirty' = [SettingsDirty EXCEPT ![GImGui] = FALSE]
    /\ last' = Call("env")
    /\ UNCHANGED <<GImGui, ctxAlive, ctxCreated, SettingsHandlers, wvars, gvars>>

\* RegisterSettingsHandler that never sets the flag.
\* The host begins a load pass over the lines of the [ImGuiScaling][Data]
\* entry of a settings file.
BeginLoad(lines) ==
    /\ GImGui # NoCtx
    /\ TypeName \in Range(SettingsHandlers[GImGui])
    /\ loadPending = <<>>
    /\ loadPending' = lines
    /\ loadFed' = <<>>
    /\ loadBefore' = g_userScale
    /\ last' = Call("env")
    /\ UNCHANGED <<wvars, gvars, cvars, fvars, kvars, hvars>>

\* The host hands the next line of the pass to the read-line callback,
\* with the token the open-entry callback gave for "Data".
LoadLine ==
    /\ loadPending # <<>>
    /\ SettingsHandler_ReadLine(SettingsHandler_ReadOpen(DataName),
                                Head(loadPending))
    /\ loadPending' = Tail(loadPending)
    /\ loadFed' = Append(loadFed, Head(loadPending))
    /\ UNCHANGED <<loadBefore, kvars, hvars>>

RegisterSettingsHandler_NoFlag ==
    /\ IF g_settingsHandlerRegistered \/ GImGui = NoCtx
       THEN /\ last' = Call("RegisterSettingsHandler")
            /\ UNCHANGED SettingsHandlers
       ELSE /\ SettingsHandlers' = [SettingsHandlers EXCEPT ![GImGui] =
                                       Append(@, TypeName)]
            /\ last' = [Call("RegisterSettingsHandler") EXCEPT !.installed = TRUE]
    /\ regCtxs' = IF GImGui = NoCtx THEN regCtxs ELSE regCtxs \cup {GImGui}
    /\ UNCHANGED <<g_settingsHandlerRegistered, g_userScale, fresh, GImGui,
                   ctxAlive, ctxCreated, SettingsDirty, wvars, fvars>>

\* RegisterSettingsHandler that sets the flag before it looks for a context.
RegisterSettingsHandler_FlagFirst ==
    /\ IF g_settingsHandlerRegistered
       THEN /\ last' = Call("RegisterSettingsHandler")
            /\ UNCHANGED <<g_settingsHandlerRegistered, SettingsHandlers>>
       ELSE /\ g_settingsHandlerRegistered' = TRUE
            /\ IF GImGui = NoCtx
               THEN /\ last' = Call("RegisterSettingsHandler")
                    /\ UNCHANGED SettingsHandlers
               ELSE /\ SettingsHandlers' = [SettingsHandlers EXCEPT ![GImGui] =
                                               Append(@, TypeName)]
                    /\ last' = [Call("RegisterSettingsHandler") EXCEPT
                                   !.installed = TRUE]
    /\ regCtxs' = IF GImGui = NoCtx THEN regCtxs ELSE regCtxs \cup {GImGui}
    /\ UNCHANGED <<g_userScale, fresh, GImGui, ctxAlive, ctxCreated,
                   SettingsDirty, wvars, fvars>>

RegisterSettingsHandler ==
    /\ IF g_settingsHandlerRegistered
       THEN /\ last' = Call("RegisterSettingsHandler")
            /\ UNCHANGED <<g_settingsHandlerRegistered, SettingsHandlers>>
       ELSE IF GImGui = NoCtx
       THEN /\ last' = Call("RegisterSettingsHandler")
            /\ UNCHANGED <<g_settingsHandlerRegistered, SettingsHandlers>>
       ELSE /\ SettingsHandlers' = [SettingsHandlers EXCEPT ![GImGui] =
                                       Append(@, TypeName)]
            /\ g_settingsHandlerRegistered' = TRUE
            /\ last' = [Call("RegisterSettingsHandler") EXCEPT !.installed = TRUE]
    /\ regCtxs' = IF GImGui = NoCtx THEN regCtxs ELSE regCtxs \cup {GImGui}
    /\ UNCHANGED <<g_userScale, fresh, GImGui, ctxAlive, ctxCreated,
                   SettingsDirty, wvars, fvars>>

\* The process ends and a new one starts: statics and widgets are
\* constructed anew, no context exists, the settings file stays.
ProcessRestart ==
    /\ m_scale' = [i \in Instances |-> One]
    /\ m_prevScale' = [i \in Instances |-> One]
    /\ ackScale' = [i \in Instances |-> One]
    /\ effSinceAck' = [i \in Instances |-> 0]
    /\ g_userScale' = One
    /\ g_settingsHandlerRegistered' = FALSE
    /\ fresh' = TRUE
    /\ regCtxs' = {}
    /\ GImGui' = NoCtx
    /\ ctxAlive' = {}
    /\ ctxCreated' = 0
    /\ SettingsHandlers' = [c \in CtxIds |-> <<>>]
    /\ SettingsDirty' = [c \in CtxIds |-> FALSE]
    /\ last' = Call("env")
    /\ UNCHANGED fvars

----------------------------------------------------------------------------

Init ==
    /\ m_scale = [i \in Instances |-> One]
    /\ m_prevScale = [i \in Instances |-> One]
    /\ ackScale = [i \in Instances |-> One]
    /\ effSinceAck = [i \in Instances |-> 0]
    /\ g_userScale = One
    /\ g_settingsHandlerRegistered = FALSE
    /\ fresh = TRUE
    /\ regCtxs = {}
    /\ GImGui = NoCtx
    /\ ctxAlive = {}
    /\ ctxCreated = 0
    /\ SettingsHandlers = [c \in CtxIds |-> <<>>]
    /\ SettingsDirty = [c \in CtxIds |-> FALSE]
    /\ iniData = <<>>
    /\ writtenScale = One
    /\ loadPending = <<>>
    /\ loadFed = <<>>
    /\ loadBefore = One
    /\ config = [dpiScale |-> One, userScale |-> One]
    /\ configIn = NoConfigCall
    /\ calls = 0
    /\ hookCalls = 0
    /\ effCalls = 0
    /\ accepted = [i \in Instances |-> One]
    /\ last = NoCall

\* The widgets alone.
NextScalable ==
    \/ \E i \in Instances, scale \in ScaleArgs :
          SetScale(i, scale) /\ UNCHANGED xvars
    \/ \E i \in Instances : AcknowledgeScaleChange(i) /\ UNCHANGED xvars

\* A process that keeps any number of contexts alive and switches between
\* them, registers the handler, sets the user scale and saves.
NextContexts ==
    \/ CreateContext /\ UNCHANGED xvars
    \/ \E c \in CtxIds : DestroyContext(c) /\ UNCHANGED xvars
    \/ \E c \in CtxIds \cup {NoCtx} : SetCurrentContext(c) /\ UNCHANGED xvars
    \/ \E scale \in FewUserScaleArgs : SetUserScale(scale) /\ UNCHANGED xvars
    \/ RegisterSettingsHandler /\ UNCHANGED xvars
    \/ SaveIniSettings /\ UNCHANGED xvars
    \/ ProcessRestart /\ UNCHANGED xvars

\* A process that keeps one context alive at a time: the user scale is
\* set, saved, and loaded again from the settings file, also by the next
\* process.
NextPersist ==
    \/ ctxAlive = {} /\ CreateContext /\ UNCHANGED xvars
    \/ \E c \in CtxIds : DestroyContext(c) /\ UNCHANGED xvars
    \/ \E c \in CtxIds \cup {NoCtx} : SetCurrentContext(c) /\ UNCHANGED xvars
    \/ \E scale \in UserScaleArgs : SetUserScale(scale) /\ UNCHANGED xvars
    \/ RegisterSettingsHandler /\ UNCHANGED xvars
    \/ SaveIniSettings /\ UNCHANGED xvars
    \/ \E name \in EntryNames, line \in SampleLines \cup Range(iniData) :
          /\ SettingsHandler_ReadLine(SettingsHandler_ReadOpen(name), line)
          /\ UNCHANGED xvars
    \/ ProcessRestart /\ UNCHANGED xvars

\* A process with one context and the handler registered, whose host runs
\* load passes of several lines each, one after the other.
NextLoad ==
    \/ ctxAlive = {} /\ CreateContext /\ UNCHANGED xvars
    \/ RegisterSettingsHandler /\ UNCHANGED xvars
    \/ \E lines \in LineSeqs(MaxLines) : BeginLoad(lines)
    \/ LoadLine

\* A process with one context and the handler registered, whose host
\* fills the output buffer of save passes handler by handler.
NextWrite ==
    \/ ctxAlive = {} /\ CreateContext /\ UNCHANGED xvars
    \/ RegisterSettingsHandler /\ UNCHANGED xvars
    \/ \E scale \in WriteScaleArgs : SetUserScale(scale) /\ UNCHANGED xvars
    \/ BeginSave
    \/ BuiltinWriteAll
    \/ WriteAllCall

\* A program that makes ScaleConfig values.
NextConfig ==
    \/ \E dpi \in ConfigArgs, user \in ConfigArgs : CreateCall(dpi, user)
    \/ \E effective \in ConfigArgs : FromEffectiveCall(effective)
    \/ DefaultConstruct

\* A program whose widgets are driven while the global user scale is set
\* and loaded, in any order.
NextMixed ==
    \/ ctxAlive = {} /\ CreateContext /\ UNCHANGED xvars
    \/ RegisterSettingsHandler /\ UNCHANGED xvars
    \/ \E i \in MixedInstances, scale \in MixedScaleArgs :
          SetScale(i, scale) /\ UNCHANGED xvars
    \/ \E i \in MixedInstances : AcknowledgeScaleChange(i) /\ UNCHANGED xvars
    \/ \E scale \in FewUserScaleArgs : SetUserScale(scale) /\ UNCHANGED xvars
    \/ \E name \in {DataName, OtherName}, line \in MixedLines :
          /\ SettingsHandler_ReadLine(SettingsHandler_ReadOpen(name), line)
          /\ UNCHANGED xvars

\* A run of counted SetScale calls on two Scalables, with acknowledgements
\* in between.
NextHooks ==
    \/ \E i \in MixedInstances, scale \in ScaleArgs : SetScaleCounted(i, scale)
    \/ \E i \in MixedInstances : AcknowledgeScaleChange(i) /\ UNCHANGED xvars

\* Widgets that are scaled and acknowledged and compute sizes with the
\* helpers in between.
NextHelpers ==
    \/ \E i \in MixedInstances, scale \in ScaleArgs : SetScaleTracked(i, scale)
    \/ \E i \in MixedInstances : AcknowledgeScaleChange(i) /\ UNCHANGED xvars
    \/ \E i \in MixedInstances, value \in ValueArgs : ScaledCall(i, value)
    \/ \E i \in MixedInstances, d \in ValueArgs, t \in ValueArgs,
          touchMode \in BOOLEAN : ScaledTouchCall(i, d, t, touchMode)

SpecScalable == Init /\ [][NextScalable]_vars

SpecHelpers == Init /\ [][NextHelpers]_vars

SpecHooks == Init /\ [][NextHooks]_vars

SpecMixed == Init /\ [][NextMixed]_vars

SpecConfig == Init /\ [][NextConfig]_vars

SpecWrite == Init /\ [][NextWrite]_vars

SpecLoad == Init /\ [][NextLoad]_vars

SpecContexts == Init /\ [][NextContexts]_vars

SpecPersist == Init /\ [][NextPersist]_vars

\* Every operation of the program.  The claims are checked under the
\* component specifications, each of which keeps the variables of the other
\* components at their initial values.
Next ==
    \/ NextScalable
    \/ NextContexts
    \/ NextPersist
    \/ NextLoad
    \/ NextWrite
    \/ NextConfig
    \/ NextMixed
    \/ NextHooks
    \/ NextHelpers

Spec == Init /\ [][Next]_vars

----------------------------------------------------------------------------
(* Claims *)

\* C1 as stated: HasScaleChanged() is true exactly when the current scale
\* differs from the value the scale had at the most recent
\* AcknowledgeScaleChange (1.0 at construction).
C1_Original ==
    \A i \in Instances : HasScaleChanged(i) <=> (m_scale[i] # ackScale[i])

\* C1 as amended: a current scale that differs from the value at the most
\* recent acknowledgement makes HasScaleChanged() true, and the two agree
\* exactly as long as at most one effective SetScale has run since.
C1_Amended ==
    \A i \in Instances :
        /\ (m_scale[i] # ackScale[i]) => HasScaleChanged(i)
        /\ effSinceAck[i] <= 1 =>
               (HasScaleChanged(i) <=> (m_scale[i] # ackScale[i]))

\* C1 witness: an instance acknowledged at 2.0 and then set to 1.5.
C1_Witness ==
    \E i \in Instances :
        /\ ackScale[i] = 2 * One
        /\ m_scale[i] = 15000
        /\ effSinceAck[i] = 1
        /\ HasScaleChanged(i)

\* C3: SetScale(newScale) with newScale > 0 and newScale # s, s the current
\* scale, leaves GetScale() = newScale, the previous scale = s, and runs
\* the OnScaleChanged hook exactly once.
C3_SetScaleApplies ==
    [][\A i \in Instances :
          (/\ last'.op = "SetScale"
           /\ last'.inst = i
           /\ last'.scale > 0
           /\ last'.scale # m_scale[i])
          => /\ GetScale(i)' = last'.scale
             /\ m_prevScale'[i] = m_scale[i]
             /\ Len(last'.hooks) = 1]_vars

\* C3 witness: an instance at 2.0 has just been set to 1.5.
C3_Witness ==
    /\ last.op = "SetScale"
    /\ last.scale = 15000
    /\ Len(last.hooks) = 1
    /\ m_scale[last.inst] = 15000
    /\ m_prevScale[last.inst] = 2 * One

\* C4: SetScale(x) with x <= 0 or x equal to the current scale changes
\* neither GetScale(), nor the previous scale, nor HasScaleChanged(), and
\* runs no hook; so the second of two identical SetScale calls changes
\* nothing.
C4_SetScaleNoOp ==
    [][\A i \in Instances :
          /\ (/\ last'.op = "SetScale"
              /\ last'.inst = i
              /\ (last'.scale <= 0 \/ last'.scale = m_scale[i]))
             => /\ GetScale(i)' = GetScale(i)
                /\ m_prevScale'[i] = m_prevScale[i]
                /\ HasScaleChanged(i)' = HasScaleChanged(i)
                /\ last'.hooks = <<>>
          /\ (/\ last.op = "SetScale"
              /\ last'.op = "SetScale"
              /\ last.inst = i
              /\ last'.inst = i
              /\ last'.scale = last.scale)
             => /\ UNCHANGED wvars
                /\ last'.hooks = <<>>]_vars

\* C4 witness: a pending instance was set to the scale it already has.
C4_Witness ==
    /\ last.op = "SetScale"
    /\ last.scale = m_scale[last.inst]
    /\ last.hooks = <<>>
    /\ HasScaleChanged(last.inst)

\* C5: a fresh Scalable has scale 1.0 and is synchronized, and
\* HasScaleChanged() is true exactly when an effective SetScale has run
\* since the most recent acknowledgement (or construction).
C5_PendingIffEffectiveSet ==
    /\ last.op = "none" =>
           \A i \in Instances : GetScale(i) = One /\ ~HasScaleChanged(i)
    /\ \A i \in Instances : HasScaleChanged(i) <=> (effSinceAck[i] > 0)

\* C5 witness: a pending instance that a further effective SetScale
\* brought back to the acknowledged value is still pending.
C5_Witness ==
    \E i \in Instances :
        /\ effSinceAck[i] >= 2
        /\ m_scale[i] = ackScale[i]
        /\ HasScaleChanged(i)

\* C6: AcknowledgeScaleChange() makes HasScaleChanged() false, keeps
\* GetScale() and runs no hook.
C6_AcknowledgeClears ==
    [][\A i \in Instances :
          (last'.op = "AcknowledgeScaleChange" /\ last'.inst = i)
          => /\ ~HasScaleChanged(i)'
             /\ GetScale(i)' = GetScale(i)
             /\ last'.hooks = <<>>]_vars

\* C6 witness: an instance set to 2.0 has just been acknowledged.
C6_Witness ==
    /\ last.op = "AcknowledgeScaleChange"
    /\ m_scale[last.inst] = 2 * One
    /\ ackScale[last.inst] = 2 * One
    /\ ~HasScaleChanged(last.inst)

----------------------------------------------------------------------------

\* C2 as stated: when a fresh process (user scale 1.0) feeds the UserScale
\* line of the settings file through the read-line callback with the
\* "Data" token, the user scale becomes the saved value rounded to three
\* decimals.
C2_RoundTrip ==
    [][(/\ last'.op = "ReadLine"
        /\ last'.entry = SettingsHandler_ReadOpen(DataName)
        /\ fresh
        /\ Len(iniData) >= 2
        /\ last'.line = iniData[2])
       => GetUserScale' = 10 * Thousandths(writtenScale)]_vars

\* C7: SetUserScale(scale) with scale > 0 stores scale with or without a
\* current context, and marks the settings dirty exactly when there is a
\* current context (that context's, and no other's).
C7_SetUserScaleStores ==
    [][(last'.op = "SetUserScale" /\ last'.scale > 0)
       => /\ GetUserScale' = last'.scale
          /\ last'.marked <=> (GImGui # NoCtx)
          /\ GImGui # NoCtx => SettingsDirty'[GImGui]
          /\ \A c \in CtxIds : c # GImGui => SettingsDirty'[c] = SettingsDirty[c]]_vars

\* C7 witness: the scale was stored while a context was alive but none
\* was current, and nothing was marked.
C7_Witness ==
    /\ last.op = "SetUserScale"
    /\ last.scale = 15000
    /\ g_userScale = 15000
    /\ GImGui = NoCtx
    /\ ctxAlive # {}
    /\ ~last.marked
    /\ \A c \in CtxIds : ~SettingsDirty[c]

\* C8: SetUserScale(scale) with scale <= 0 changes neither the user scale
\* nor any dirty flag.
C8_SetUserScaleRejects ==
    [][(last'.op = "SetUserScale" /\ last'.scale <= 0)
       => /\ GetUserScale' = GetUserScale
          /\ SettingsDirty' = SettingsDirty
          /\ ~last'.marked]_vars

\* C8 witness: with the user scale at 1.5 and the current context saved
\* (not dirty), a non-positive scale was passed.
C8_Witness ==
    /\ last.op = "SetUserScale"
    /\ last.scale <= 0
    /\ g_userScale = 15000
    /\ GImGui # NoCtx
    /\ ~SettingsDirty[GImGui]

\* The handlers of a list that carry this library's type name.
HandlerCount(hs) == Cardinality({k \in DOMAIN hs : hs[k] = TypeName})

\* The write-all blocks of this library in a buffer.
BlockCount(buf) == Cardinality({k \in DOMAIN buf : buf[k] = HeaderLine(TypeName)})

\* C9: when every RegisterSettingsHandler call made with a context was
\* made with the same context c, c's list holds exactly one "ImGuiScaling"
\* handler and a save pass over it writes exactly one block.
C9_RegistrationIdempotent ==
    \A c \in CtxIds :
        (regCtxs = {c} /\ c \in ctxAlive)
        => /\ HandlerCount(SettingsHandlers[c]) = 1
           /\ BlockCount(WritePass(SettingsHandlers[c], g_userScale, <<>>)) = 1

\* C9 witness: a further call in the context that already has the handler
\* installed nothing.
C9_Witness ==
    /\ last.op = "RegisterSettingsHandler"
    /\ ~last.installed
    /\ GImGui # NoCtx
    /\ regCtxs = {GImGui}
    /\ HandlerCount(SettingsHandlers[GImGui]) = 1

\* C10: RegisterSettingsHandler with no current context installs nothing
\* and leaves the flag as it is, false as long as no call was made with a
\* context; the first call with a current context then installs the
\* handler and sets the flag.
C10_NoContextNoOp ==
    [][/\ regCtxs = {} =>
              /\ ~g_settingsHandlerRegistered
              /\ \A c \in CtxIds : HandlerCount(SettingsHandlers[c]) = 0
       /\ (last'.op = "RegisterSettingsHandler" /\ GImGui = NoCtx)
          => /\ SettingsHandlers' = SettingsHandlers
             /\ g_settingsHandlerRegistered' = g_settingsHandlerRegistered
             /\ ~last'.installed
       /\ (last'.op = "RegisterSettingsHandler" /\ GImGui # NoCtx /\ regCtxs = {})
          => /\ SettingsHandlers' =
                    [SettingsHandlers EXCEPT ![GImGui] = Append(@, TypeName)]
             /\ g_settingsHandlerRegistered'
             /\ last'.installed]_vars

\* C10 witness: a call was made while a context was alive but none was
\* current; nothing is installed and the flag is false.
C10_Witness ==
    /\ last.op = "RegisterSettingsHandler"
    /\ GImGui = NoCtx
    /\ ctxAlive # {}
    /\ ~g_settingsHandlerRegistered
    /\ \A c \in CtxIds : HandlerCount(SettingsHandlers[c]) = 0

----------------------------------------------------------------------------

\* A line sscanf converts and whose value passes the sanity check.
IsAcceptedLine(line) ==
    LET r == ScanUserScale(line)
    IN r.n = 1 /\ r.scale > 0 /\ r.scale <= 10 * One

\* C11: the read-line callback with a valid token stores the value of a
\* line that reads as UserScale=<v> with 0 < v <= 10, and leaves the user
\* scale as it is for v <= 0, v > 10 and for a line sscanf does not
\* convert; so for the lines UserScale=0.000, UserScale=11.000,
\* UserScale=abc and Pos=60,60, while UserScale=1.500 stores 1.5.
C11_ReadLineSanity ==
    [][(last'.op = "ReadLine" /\ last'.entry # 0)
       => /\ IF IsAcceptedLine(last'.line)
             THEN GetUserScale' = ScanUserScale(last'.line).scale
             ELSE GetUserScale' = GetUserScale
          /\ last'.line \in
                 { UserScaleKey \o <<"0", ".", "0", "0", "0">>,
                   UserScaleKey \o <<"1", "1", ".", "0", "0", "0">>,
                   UserScaleKey \o <<"-", "1", ".", "0", "0", "0">>,
                   UserScaleKey \o <<"a", "b", "c">>,
                   <<"P", "o", "s", "=", "6", "0", ",", "6", "0">> }
             => GetUserScale' = GetUserScale
          /\ last'.line = UserScaleKey \o <<"1", ".", "5", "0", "0">>
             => GetUserScale' = 15000]_vars

\* C11 witness: with the user scale at 1.5, the line UserScale=11.000 was
\* read with a valid token and the user scale is still 1.5.
C11_Witness ==
    /\ last.op = "ReadLine"
    /\ last.entry # 0
    /\ last.line = UserScaleKey \o <<"1", "1", ".", "0", "0", "0">>
    /\ g_userScale = 15000

\* C12: the open-entry callback returns a token exactly for the name
\* "Data", and the read-line callback with no token leaves the user scale
\* as it is whatever the line.
C12_TokenGuards ==
    [][/\ \A name \in EntryNames :
              (SettingsHandler_ReadOpen(name) # 0) <=> (name = DataName)
       /\ (last'.op = "ReadLine" /\ last'.entry = 0)
          => GetUserScale' = GetUserScale]_vars

\* C12 witness: the well-formed line UserScale=1.500 was read with no
\* token and the user scale is still the default.
C12_Witness ==
    /\ last.op = "ReadLine"
    /\ last.entry = 0
    /\ last.line = UserScaleKey \o <<"1", ".", "5", "0", "0">>
    /\ g_userScale = One
    /\ fresh

----------------------------------------------------------------------------

\* The value of the last accepted line of lines, or before if none is.
RECURSIVE LastAccepted(_, _)
LastAccepted(before, lines) ==
    IF lines = <<>> THEN before
    ELSE IF IsAcceptedLine(lines[Len(lines)])
    THEN ScanUserScale(lines[Len(lines)]).scale
    ELSE LastAccepted(before, SubSeq(lines, 1, Len(lines) - 1))

\* C13: after the read-line callback was fed a sequence of lines with a
\* valid token, the user scale is the value of the last accepted line of
\* the sequence, or what it was before if there is none: UserScale=abc
\* after UserScale=1.500 leaves 1.5, and before it does not stop 1.5 from
\* being stored.
C13_LastAcceptedLineWins ==
    /\ GetUserScale = LastAccepted(loadBefore, loadFed)
    /\ loadFed \in
           { << UserScaleKey \o <<"1", ".", "5", "0", "0">>,
                UserScaleKey \o <<"a", "b", "c">> >>,
             << UserScaleKey \o <<"a", "b", "c">>,
                UserScaleKey \o <<"1", ".", "5", "0", "0">> >> }
       => GetUserScale = 15000

\* C13 witness: a pass that began at 2.5 and fed UserScale=1.500 and then
\* two lines that are not accepted has ended, and the user scale is 1.5.
C13_Witness ==
    /\ loadPending = <<>>
    /\ Len(loadFed) = 3
    /\ loadFed[1] = UserScaleKey \o <<"1", ".", "5", "0", "0">>
    /\ ~IsAcceptedLine(loadFed[2])
    /\ ~IsAcceptedLine(loadFed[3])
    /\ loadBefore = 25000
    /\ g_userScale = 15000

----------------------------------------------------------------------------

\* The position of the decimal point in a line, or 0.
PointAt(line) ==
    IF \E k \in DOMAIN line : line[k] = "."
    THEN CHOOSE k \in DOMAIN line : line[k] = "."
    ELSE 0

\* C14: each call of the write-all callback appends exactly three lines to
\* the output buffer, whatever it holds: the header [ImGuiScaling][Data],
\* UserScale= followed by the user scale with three decimals (UserScale=1.250
\* for 1.25), and an empty line; the user scale and the registration flag
\* stay as they are.
C14_WriteAllAppendsBlock ==
    [][last'.op = "WriteAll"
       => LET n == Len(iniData)
              line == iniData'[n + 2]
          IN /\ Len(iniData') = n + 3
             /\ SubSeq(iniData', 1, n) = iniData
             /\ iniData'[n + 1] =
                    <<"[", "I", "m", "G", "u", "i", "S", "c", "a", "l", "i",
                      "n", "g", "]", "[", "D", "a", "t", "a", "]">>
             /\ SubSeq(line, 1, Len(UserScaleKey)) = UserScaleKey
             /\ PointAt(line) = Len(line) - 3
             /\ \A k \in (Len(UserScaleKey) + 1) .. Len(line) :
                   k # PointAt(line) => IsDigit(line[k])
             /\ ScanUserScale(line).n = 1
             /\ ScanUserScale(line).scale - g_userScale \in -5 .. 5
             /\ g_userScale = 12500
                => line = UserScaleKey \o <<"1", ".", "2", "5", "0">>
             /\ iniData'[n + 3] = <<>>
             /\ g_userScale' = g_userScale
             /\ g_settingsHandlerRegistered' = g_settingsHandlerRegistered
    ]_vars

\* C14 witness: the callback has appended its block for 1.25 behind the
\* block of another handler.
C14_Witness ==
    /\ last.op = "WriteAll"
    /\ g_userScale = 12500
    /\ Len(iniData) = 5
    /\ SubSeq(iniData, 1, 2) = WindowBlock
    /\ iniData[4] = UserScaleKey \o <<"1", ".", "2", "5", "0">>

----------------------------------------------------------------------------

\* C15: Create(dpi, user) holds dpi and user and its effective scale is
\* dpi * user (3.0 for 1.5 and 2.0); FromEffective(effective) has DPI
\* scale 1.0 and effective scale effective; a default-constructed
\* ScaleConfig has DPI scale, user scale and effective scale 1.0.
C15_ScaleConfig ==
    /\ configIn.op = "Create"
       => /\ config.dpiScale = configIn.dpi
          /\ config.userScale = configIn.user
          /\ GetEffectiveScale(config) * One = configIn.dpi * configIn.user
          /\ (configIn.dpi = 15000 /\ configIn.user = 2 * One)
             => GetEffectiveScale(config) = 3 * One
    /\ configIn.op = "FromEffective"
       => /\ config.dpiScale = One
          /\ GetEffectiveScale(config) = configIn.effective
    /\ configIn.op = "default"
       => /\ config.dpiScale = One
          /\ config.userScale = One
          /\ GetEffectiveScale(config) = One

\* C15 witness: Create(1.5, 2.0) has made a ScaleConfig of effective
\* scale 3.0.
C15_Witness ==
    /\ configIn.op = "Create"
    /\ configIn.dpi = 15000
    /\ configIn.user = 2 * One
    /\ GetEffectiveScale(config) = 3 * One

----------------------------------------------------------------------------

\* C16: however SetScale, AcknowledgeScaleChange, SetUserScale and the
\* read-line callback are interleaved, with zero, negative and
\* out-of-range arguments among them, the user scale and the current and
\* the previous scale of every Scalable are greater than zero.
C16_ScalesStayPositive ==
    /\ g_userScale > 0
    /\ \A i \in Instances : m_scale[i] > 0 /\ m_prevScale[i] > 0

\* C16 witness: the read-line callback has been handed UserScale=-1.000
\* with a valid token while the user scale was 1.5 and a Scalable had gone
\* from 1.0 to 1.5, and all of them are as they were.
C16_Witness ==
    /\ last.op = "ReadLine"
    /\ last.entry = 1
    /\ last.line = UserScaleKey \o <<"-", "1", ".", "0", "0", "0">>
    /\ g_userScale = 15000
    /\ m_scale[1] = 15000
    /\ m_prevScale[1] = One

----------------------------------------------------------------------------

\* C17 as stated: after every RegisterSettingsHandler call made while a
\* context is current, whatever contexts were created, destroyed and made
\* current before it, the list of the current context holds exactly one
\* "ImGuiScaling" handler.
C17_CurrentContextHasHandler ==
    (last.op = "RegisterSettingsHandler" /\ GImGui # NoCtx)
    => HandlerCount(SettingsHandlers[GImGui]) = 1

----------------------------------------------------------------------------

\* C18: when SetScale calls the OnScaleChanged hook the new scale is
\* already stored, so the hook reads the argument from GetScale() and true
\* from HasScaleChanged(); and after any sequence of calls the hook has
\* been called as many times as SetScale was called with a positive
\* argument other than the scale at the time of the call.
C18_HookSeesNewScale ==
    [][/\ hookCalls' = effCalls'
       /\ last'.op = "SetScale"
          => /\ Len(last'.hooks) <= 1
             /\ \A k \in DOMAIN last'.hooks :
                   /\ last'.hooks[k].scale = last'.scale
                   /\ last'.hooks[k].scale = m_scale'[last'.inst]
                   /\ last'.hooks[k].changed]_vars

\* C18 witness: of four SetScale calls two changed a scale, the last of
\* them among these, and the hook has run twice.
C18_Witness ==
    /\ calls = 4
    /\ effCalls = 2
    /\ hookCalls = 2
    /\ last.op = "SetScale"
    /\ Len(last.hooks) = 1
    /\ last.hooks[1].scale = 15000

----------------------------------------------------------------------------

\* C19: SetUserScale and the read-line callback change no Scalable's
\* scale, previous scale or HasScaleChanged() and call no OnScaleChanged
\* hook; SetScale and AcknowledgeScaleChange on one Scalable change neither
\* the user scale, the settings-dirty marks, the registration flag nor any
\* other Scalable.
C19_WidgetAndGlobalIndependent ==
    [][/\ last'.op \in {"SetUserScale", "ReadLine"}
          => /\ m_scale' = m_scale
             /\ m_prevScale' = m_prevScale
             /\ \A i \in Instances :
                   (m_scale'[i] # m_prevScale'[i]) = HasScaleChanged(i)
             /\ last'.hooks = <<>>
       /\ last'.op \in {"SetScale", "AcknowledgeScaleChange"}
          => /\ g_userScale' = g_userScale
             /\ SettingsDirty' = SettingsDirty
             /\ g_settingsHandlerRegistered' = g_settingsHandlerRegistered
             /\ \A j \in Instances \ {last'.inst} :
                   /\ m_scale'[j] = m_scale[j]
                   /\ m_prevScale'[j] = m_prevScale[j]]_vars

\* C19 witness: SetScale has changed the first Scalable to 1.5 while the
\* other has a change pending, the user scale is 2.5 and the settings of
\* the current context are clean.
C19_Witness ==
    /\ last.op = "SetScale"
    /\ last.inst = 1
    /\ m_scale[1] = 15000
    /\ HasScaleChanged(NumInstances)
    /\ g_userScale = 25000
    /\ GImGui # NoCtx
    /\ ~SettingsDirty[GImGui]

----------------------------------------------------------------------------

\* A whole base size times a scale.
Times(value, scale) == (value \div One) * scale

\* C20: after any SetScale and AcknowledgeScaleChange calls, Scaled(v)
\* returns v times the last positive SetScale argument (1.0 if there was
\* none), acknowledged or not: 15.0 for 10.0 at scale 1.5; ScaledTouch
\* returns the touch value times that scale in touch mode and the desktop
\* value times that scale otherwise: 30.0 and 15.0 for (10.0, 20.0) at
\* scale 1.5; neither changes any state.
C20_HelpersUseCurrentScale ==
    [][/\ last'.op = "Scaled"
          => /\ last'.result = Times(last'.scale, accepted[last'.inst])
             /\ (last'.scale = 10 * One /\ accepted[last'.inst] = 15000)
                => last'.result = 15 * One
       /\ last'.op = "ScaledTouch"
          => /\ last'.mode
                => last'.result = Times(last'.touch, accepted[last'.inst])
             /\ ~last'.mode
                => last'.result = Times(last'.scale, accepted[last'.inst])
             /\ (/\ last'.scale = 10 * One
                 /\ last'.touch = 20 * One
                 /\ accepted[last'.inst] = 15000)
                => last'.result = IF last'.mode THEN 30 * One ELSE 15 * One
       /\ last'.op \in {"Scaled", "ScaledTouch"}
          => /\ m_scale' = m_scale
             /\ m_prevScale' = m_prevScale
             /\ g_userScale' = g_userScale
             /\ <<gvars, cvars, fvars>>' = <<gvars, cvars, fvars>>]_vars

\* C20 witness: Scaled(10.0) has returned 15.0 on a Scalable that went
\* from 2.0 to 1.5 and has not been acknowledged since.
C20_Witness ==
    /\ last.op = "Scaled"
    /\ last.scale = 10 * One
    /\ last.result = 15 * One
    /\ m_scale[last.inst] = 15000
    /\ m_prevScale[last.inst] = 2 * One

====
